---- MODULE Spec2Model ----
(***************************************************************************)
(* Model of the Dartino/Fletch VM string codec (src/vm/unicode.cc) and of  *)
(* the stack frame cursor (src/vm/frame.h).                                *)
(*                                                                         *)
(* Bytes are naturals in 0..255, UTF-16 code units naturals in 0..65535.   *)
(* A C array is a TLA+ sequence: C index i is TLA+ index i + 1.            *)
(***************************************************************************)
EXTENDS Integers, Sequences, FiniteSets, TLC

VARIABLES
  pc,         \* position inside the current scenario
  cp,         \* code point handed to Utf8::Encode
  buf,        \* UTF-8 byte buffer (utf8_array), as allocated
  alen,       \* array_len supplied to the decoder
  cap,        \* len: capacity of the UTF-16 destination buffer
  enc,        \* result of Utf8::Encode: [ret, bytes]
  dec,        \* result of Utf8::Decode: [ret, dst, reads]
  cnt,        \* result of Utf8::CodeUnitCount: [len, type]
  u16,        \* result of Utf8::DecodeToUTF16
  str,        \* TwoByteString code units under the CodePointIterator
  ch_,        \* CodePointIterator::ch_
  index_,     \* CodePointIterator::index_
  hist,       \* one record per Next() call made so far
  stack,      \* Stack slots, slot i at TLA+ index i + 1
  fp,         \* interpreter frame pointer register (an address, or NULL)
  depth,      \* number of active calls
  frame,      \* the Frame cursor of the current stack walk
  steps,      \* Previous() applications made by the current walk
  visited     \* frames the current walk has produced, oldest first

codecVars == <<cp, buf, alen, cap, enc, dec, cnt, u16>>
iterVars  == <<str, ch_, index_, hist>>
frameVars == <<stack, fp, depth, frame, steps, visited>>
vars      == <<pc, cp, buf, alen, cap, enc, dec, cnt, u16,
               str, ch_, index_, hist, stack, fp, depth, frame, steps, visited>>

(***************************************************************************)
(* Fixed-width integer helpers.  Values of type int32 that the code keeps  *)
(* non-negative are plain integers.  A uint32_t is a record [hi, lo] of    *)
(* its two 16-bit halves, so that the wrap-around of the decoder's         *)
(* accumulator is computed exactly.                                        *)
(***************************************************************************)
Pow2(n) == 2 ^ n

\* x >> n on a non-negative value
Shr(x, n) == x \div Pow2(n)

\* conversion to uint8_t / char storage
U8(x) == x % 256

\* conversion to uint16_t
U16(x) == x % 65536

\* bitwise AND of two non-negative values
RECURSIVE BitAnd(_, _)
BitAnd(x, y) ==
  IF x = 0 \/ y = 0 THEN 0
  ELSE (IF x % 2 = 1 /\ y % 2 = 1 THEN 1 ELSE 0) + 2 * BitAnd(x \div 2, y \div 2)

\* bitwise OR of two non-negative values
RECURSIVE BitOr(_, _)
BitOr(x, y) ==
  IF x = 0 THEN y
  ELSE IF y = 0 THEN x
  ELSE (IF x % 2 = 1 \/ y % 2 = 1 THEN 1 ELSE 0) + 2 * BitOr(x \div 2, y \div 2)

\* x & ~((1 << n) - 1) on a non-negative int32: the low n bits cleared
ClearLowBits(x, n) == x - (x % Pow2(n))

\* uint32_t from its halves
U32(hi, lo) == [hi |-> hi, lo |-> lo]

\* uint32_t from a value below 2^31
ToU32(x) == U32(Shr(x, 16) % 65536, x % 65536)

\* (a << 6) + b in uint32_t arithmetic, b a byte
U32Shl6Add(a, b) ==
  LET lo == a.lo * 64 + b
      hi == a.hi * 64 + Shr(lo, 16)
  IN  U32(hi % 65536, lo % 65536)

\* a - b in uint32_t arithmetic
U32Sub(a, b) ==
  LET borrow == IF a.lo < b.lo THEN 1 ELSE 0
      lo == a.lo - b.lo + borrow * 65536
      hi == a.hi - b.hi - borrow
  IN  U32((hi + 65536) % 65536, lo)

\* a < b on uint32_t
U32Less(a, b) == a.hi < b.hi \/ (a.hi = b.hi /\ a.lo < b.lo)

\* a > n on uint32_t, n a non-negative int32 constant
U32Above(a, n) == U32Less(ToU32(n), a)

\* the value of a uint32_t known to be below 2^31
U32Value(a) == a.hi * 65536 + a.lo

(***************************************************************************)
(* Constants of unicode.h.                                                 *)
(***************************************************************************)
\* Utf::kMaxCodePoint = 0x10FFFF
kMaxCodePoint == 1114111
\* Utf8::kMaxOneByteChar = 0x7F
kMaxOneByteChar == 127
\* Utf8::kMaxTwoByteChar = 0x7FF
kMaxTwoByteChar == 2047
\* Utf8::kMaxThreeByteChar = 0xFFFF
kMaxThreeByteChar == 65535
\* Utf8::kMaxFourByteChar = Utf::kMaxCodePoint
kMaxFourByteChar == kMaxCodePoint
\* Utf16::kMaxCodeUnit = 0xFFFF
kMaxCodeUnit == 65535
\* Utf16::kLeadSurrogateOffset = 0xD800 - (0x10000 >> 10)
kLeadSurrogateOffset == 55296 - Shr(65536, 10)

\* Utf8::Type
kLatin1 == 0
kBMP == 1
kSupplementary == 2

(***************************************************************************)
(* Tables of unicode.cc.                                                   *)
(***************************************************************************)
kTrailBytes == <<
    1, 1, 1, 1, 1, 1, 1, 1, 1, 1, 1, 1, 1, 1, 1, 1, 1, 1, 1, 1, 1, 1, 1, 1,
    1, 1, 1, 1, 1, 1, 1, 1, 1, 1, 1, 1, 1, 1, 1, 1, 1, 1, 1, 1, 1, 1, 1, 1,
    1, 1, 1, 1, 1, 1, 1, 1, 1, 1, 1, 1, 1, 1, 1, 1, 1, 1, 1, 1, 1, 1, 1, 1,
    1, 1, 1, 1, 1, 1, 1, 1, 1, 1, 1, 1, 1, 1, 1, 1, 1, 1, 1, 1, 1, 1, 1, 1,
    1, 1, 1, 1, 1, 1, 1, 1, 1, 1, 1, 1, 1, 1, 1, 1, 1, 1, 1, 1, 1, 1, 1, 1,
    1, 1, 1, 1, 1, 1, 1, 1, 0, 0, 0, 0, 0, 0, 0, 0, 0, 0, 0, 0, 0, 0, 0, 0,
    0, 0, 0, 0, 0, 0, 0, 0, 0, 0, 0, 0, 0, 0, 0, 0, 0, 0, 0, 0, 0, 0, 0, 0,
    0, 0, 0, 0, 0, 0, 0, 0, 0, 0, 0, 0, 0, 0, 0, 0, 0, 0, 0, 0, 0, 0, 0, 0,
    2, 2, 2, 2, 2, 2, 2, 2, 2, 2, 2, 2, 2, 2, 2, 2, 2, 2, 2, 2, 2, 2, 2, 2,
    2, 2, 2, 2, 2, 2, 2, 2, 3, 3, 3, 3, 3, 3, 3, 3, 3, 3, 3, 3, 3, 3, 3, 3,
    4, 4, 4, 4, 4, 4, 4, 4, 5, 5, 5, 5, 6, 6, 0, 0>>

\* index 0 of the C array is padding
kMagicBits == <<U32(0, 0),
                U32(0, 0),          \* 0x00000000
                U32(0, 12416),      \* 0x00003080
                U32(14, 8320),      \* 0x000E2080
                U32(968, 8320),     \* 0x03C82080
                U32(64008, 8320),   \* 0xFA082080
                U32(33288, 8320)>>  \* 0x82082080

\* minimum code point per sequence length; index 0 of the C array is padding
kOverlongMinimum == <<U32(0, 0),
                      U32(0, 0),            \* 0x0
                      U32(0, 128),          \* 0x80
                      U32(0, 2048),         \* 0x800
                      U32(1, 0),            \* 0x10000
                      U32(65535, 65535),    \* 0xFFFFFFFF
                      U32(65535, 65535)>>   \* 0xFFFFFFFF

(***************************************************************************)
(* Inline predicates of unicode.h.                                         *)
(***************************************************************************)
\* (code_unit & 0xC0) == 0x80
IsTrailByte(code_unit) == BitAnd(code_unit, 192) = 128

\* start of a sequence for a code point <= U+00FF
IsLatin1SequenceStart(code_unit) == code_unit <= 195

\* start of a sequence for a code point >= U+10000
IsSupplementarySequenceStart(code_unit) == code_unit >= 240

\* code point above plane 17; the argument is a uint32_t, which is negative
\* or above kMaxCodePoint as an intptr_t exactly when it exceeds kMaxCodePoint
IsOutOfRange(code_point) == U32Above(code_point, kMaxCodePoint)

\* code_point < kOverlongMinimum[num_code_units], on uint32_t
IsNonShortestForm(code_point, num_code_units) ==
  U32Less(code_point, kOverlongMinimum[num_code_units + 1])

\* (ch & 0xFFFFFC00) == 0xD800
IsLeadSurrogate(ch) == ClearLowBits(ch, 10) = 55296

\* (ch & 0xFFFFFC00) == 0xDC00
IsTrailSurrogate(ch) == ClearLowBits(ch, 10) = 56320

\* Utf16::Length(ch)
Utf16Length(ch) == IF ch <= kMaxCodeUnit THEN 1 ELSE 2

\* Utf16::Decode(lead, trail)
Utf16Decode(lead, trail) ==
  65536 + BitAnd(lead, 1023) * 1024 + BitAnd(trail, 1023)

(***************************************************************************)
(* Utf8::Length(int32 ch), unicode.cc:77                                   *)
(***************************************************************************)
Utf8Length(ch) ==
  IF ch <= kMaxOneByteChar THEN 1
  ELSE IF ch <= kMaxTwoByteChar THEN 2
  ELSE IF ch <= kMaxThreeByteChar THEN 3
  ELSE 4

(***************************************************************************)
(* Utf8::Encode(int32 ch, char* dst), unicode.cc:99.  The result holds the *)
(* return value and the bytes stored at dst[0..ret).  Each stored value is *)
(* truncated to a char.                                                    *)
(***************************************************************************)
\* x & kMask for kMask = ~(1 << 6), on a non-negative int32: bit 6 cleared
AndMask(x) == x - (Shr(x, 6) % 2) * 64

\* Utf8::Encode with the continuation bytes left unmasked
Utf8EncodeUnmasked(ch) ==
  IF ch <= kMaxOneByteChar THEN
    [ret |-> 1, bytes |-> <<U8(ch)>>]
  ELSE IF ch <= kMaxTwoByteChar THEN
    [ret |-> 2, bytes |-> <<U8(BitOr(192, Shr(ch, 6))),
                            U8(BitOr(128, ch))>>]
  ELSE IF ch <= kMaxThreeByteChar THEN
    [ret |-> 3, bytes |-> <<U8(BitOr(224, Shr(ch, 12))),
                            U8(BitOr(128, Shr(ch, 6))),
                            U8(BitOr(128, ch))>>]
  ELSE
    [ret |-> 4, bytes |-> <<U8(BitOr(240, Shr(ch, 18))),
                            U8(BitOr(128, Shr(ch, 12))),
                            U8(BitOr(128, Shr(ch, 6))),
                            U8(BitOr(128, ch))>>]

Utf8Encode(ch) ==
  IF ch <= kMaxOneByteChar THEN
    [ret |-> 1, bytes |-> <<U8(ch)>>]
  ELSE IF ch <= kMaxTwoByteChar THEN
    [ret |-> 2, bytes |-> <<U8(BitOr(192, Shr(ch, 6))),
                            U8(BitOr(128, AndMask(ch)))>>]
  ELSE IF ch <= kMaxThreeByteChar THEN
    [ret |-> 3, bytes |-> <<U8(BitOr(224, Shr(ch, 12))),
                            U8(BitOr(128, AndMask(Shr(ch, 6)))),
                            U8(BitOr(128, AndMask(ch)))>>]
  ELSE
    [ret |-> 4, bytes |-> <<U8(BitOr(240, Shr(ch, 18))),
                            U8(BitOr(128, AndMask(Shr(ch, 12)))),
                            U8(BitOr(128, AndMask(Shr(ch, 6)))),
                            U8(BitOr(128, AndMask(ch)))>>]

(***************************************************************************)
(* Utf16::Encode(int32 codepoint, uint16_t* dst), unicode.cc:139: the two  *)
(* code units stored at dst[0] and dst[1].                                 *)
(***************************************************************************)
Utf16Encode(codepoint) ==
  <<U16(kLeadSurrogateOffset + Shr(codepoint, 10)),
    U16(56320 + BitAnd(codepoint, 1023))>>

(***************************************************************************)
(* Utf8::Decode, unicode.cc:146.  utf8_array is the memory behind the      *)
(* pointer, array_len the length the caller supplies.  The result holds    *)
(* the return value, the value stored in *dst and the set of indices read. *)
(***************************************************************************)
\* the for loop of lines 154-163, entered with the loop variables i, ch,
\* is_malformed; truncated is the early return of lines 160-161
RECURSIVE DecodeLoop(_, _, _, _, _, _, _)
DecodeLoop(utf8_array, array_len, num_trail_bytes, i, ch, is_malformed, reads) ==
  IF i < num_trail_bytes THEN
    IF i < array_len THEN
      LET code_unit == utf8_array[i + 1]
      IN  DecodeLoop(utf8_array, array_len, num_trail_bytes, i + 1,
                     U32Shl6Add(ch, code_unit),
                     is_malformed \/ ~IsTrailByte(code_unit),
                     reads \cup {i})
    ELSE
      [truncated |-> TRUE, i |-> i, ch |-> ch,
       is_malformed |-> is_malformed, reads |-> reads]
  ELSE
    [truncated |-> FALSE, i |-> i, ch |-> ch,
     is_malformed |-> is_malformed, reads |-> reads]

\* Utf8::Decode without the shortest-form test
Utf8DecodeNoShortestForm(utf8_array, array_len) ==
  LET lead == BitAnd(utf8_array[1], 255)
  IN  IF lead >= 128 THEN
        LET num_trail_bytes == kTrailBytes[lead + 1]
            l  == DecodeLoop(utf8_array, array_len, num_trail_bytes, 1,
                             ToU32(lead), FALSE, {0})
            ch == U32Sub(l.ch, kMagicBits[num_trail_bytes + 1])
        IN  IF l.truncated THEN
              [ret |-> 0, dst |-> -1, reads |-> l.reads]
            ELSE IF ~(/\ l.is_malformed = FALSE
                      /\ l.i = num_trail_bytes
                      /\ ~IsOutOfRange(ch)) THEN
              [ret |-> 0, dst |-> -1, reads |-> l.reads]
            ELSE
              [ret |-> l.i, dst |-> U32Value(ch), reads |-> l.reads]
      ELSE
        [ret |-> 1, dst |-> lead, reads |-> {0}]

\* Utf8::Decode with surrogate code points treated as malformed
Utf8DecodeNoSurrogates(utf8_array, array_len) ==
  LET lead == BitAnd(utf8_array[1], 255)
  IN  IF lead >= 128 THEN
        LET num_trail_bytes == kTrailBytes[lead + 1]
            l  == DecodeLoop(utf8_array, array_len, num_trail_bytes, 1,
                             ToU32(lead), FALSE, {0})
            ch == U32Sub(l.ch, kMagicBits[num_trail_bytes + 1])
        IN  IF l.truncated THEN
              [ret |-> 0, dst |-> -1, reads |-> l.reads]
            ELSE IF ~(/\ l.is_malformed = FALSE
                      /\ l.i = num_trail_bytes
                      /\ ~IsOutOfRange(ch)
                      /\ ~(ch.hi = 0 /\ ch.lo \in 55296..57343)
                      /\ ~IsNonShortestForm(ch, l.i)) THEN
              [ret |-> 0, dst |-> -1, reads |-> l.reads]
            ELSE
              [ret |-> l.i, dst |-> U32Value(ch), reads |-> l.reads]
      ELSE
        [ret |-> 1, dst |-> lead, reads |-> {0}]

Utf8Decode(utf8_array, array_len) ==
  LET lead == BitAnd(utf8_array[1], 255)
  IN  IF lead >= 128 THEN
        LET num_trail_bytes == kTrailBytes[lead + 1]
            l  == DecodeLoop(utf8_array, array_len, num_trail_bytes, 1,
                             ToU32(lead), FALSE, {0})
            ch == U32Sub(l.ch, kMagicBits[num_trail_bytes + 1])
        IN  IF l.truncated THEN
              [ret |-> 0, dst |-> -1, reads |-> l.reads]
            ELSE IF ~(/\ l.is_malformed = FALSE
                      /\ l.i = num_trail_bytes
                      /\ ~IsOutOfRange(ch)
                      /\ ~IsNonShortestForm(ch, l.i)) THEN
              [ret |-> 0, dst |-> -1, reads |-> l.reads]
            ELSE
              [ret |-> l.i, dst |-> U32Value(ch), reads |-> l.reads]
      ELSE
        [ret |-> 1, dst |-> lead, reads |-> {0}]

(***************************************************************************)
(* Utf8::CodeUnitCount, unicode.cc:54: [len, type] after the loop has      *)
(* reached index i with the running values len and char_type.              *)
(***************************************************************************)
\* the loop of Utf8::CodeUnitCount with kBMP assigned whatever the type so far
RECURSIVE CodeUnitCountLoopAssignsBMP(_, _, _, _, _)
CodeUnitCountLoopAssignsBMP(utf8_array, array_len, i, len, char_type) ==
  IF i < array_len THEN
    LET code_unit == utf8_array[i + 1]
    IN  IF ~IsTrailByte(code_unit) THEN
          IF ~IsLatin1SequenceStart(code_unit) THEN
            IF IsSupplementarySequenceStart(code_unit) THEN
              CodeUnitCountLoopAssignsBMP(utf8_array, array_len, i + 1, len + 2, kSupplementary)
            ELSE
              CodeUnitCountLoopAssignsBMP(utf8_array, array_len, i + 1, len + 1, kBMP)
          ELSE
            CodeUnitCountLoopAssignsBMP(utf8_array, array_len, i + 1, len + 1, char_type)
        ELSE
          CodeUnitCountLoopAssignsBMP(utf8_array, array_len, i + 1, len, char_type)
  ELSE
    [len |-> len, type |-> char_type]

RECURSIVE CodeUnitCountLoop(_, _, _, _, _)
CodeUnitCountLoop(utf8_array, array_len, i, len, char_type) ==
  IF i < array_len THEN
    LET code_unit == utf8_array[i + 1]
    IN  IF ~IsTrailByte(code_unit) THEN
          IF ~IsLatin1SequenceStart(code_unit) THEN
            IF IsSupplementarySequenceStart(code_unit) THEN
              CodeUnitCountLoop(utf8_array, array_len, i + 1, len + 2, kSupplementary)
            ELSE IF char_type = kLatin1 THEN
              CodeUnitCountLoop(utf8_array, array_len, i + 1, len + 1, kBMP)
            ELSE
              CodeUnitCountLoop(utf8_array, array_len, i + 1, len + 1, char_type)
          ELSE
            CodeUnitCountLoop(utf8_array, array_len, i + 1, len + 1, char_type)
        ELSE
          CodeUnitCountLoop(utf8_array, array_len, i + 1, len, char_type)
  ELSE
    [len |-> len, type |-> char_type]

CodeUnitCount(utf8_array, array_len) ==
  CodeUnitCountLoop(utf8_array, array_len, 0, 0, kLatin1)

(***************************************************************************)
(* Utf8::DecodeToUTF16, unicode.cc:177.  writes lists the stores to dst in *)
(* program order, each [idx, val]; encoded lists the code points handed to *)
(* Utf16::Encode; i and j are the loop variables when the function         *)
(* returns; invalid tells the return of line 189 from that of line 199.    *)
(***************************************************************************)
RECURSIVE DecodeToUTF16Loop(_, _, _, _, _, _, _)
DecodeToUTF16Loop(utf8_array, array_len, len, i, j, writes, encoded) ==
  IF (i < array_len) /\ (j < len) THEN
    LET is_supplementary == IsSupplementarySequenceStart(utf8_array[i + 1])
        d == Utf8Decode(SubSeq(utf8_array, i + 1, Len(utf8_array)), array_len - i)
    IN  IF d.dst = -1 THEN
          [ret |-> FALSE, invalid |-> TRUE, i |-> i, j |-> j,
           writes |-> writes, encoded |-> encoded]
        ELSE IF is_supplementary THEN
          LET pair == Utf16Encode(d.dst)
          IN  DecodeToUTF16Loop(utf8_array, array_len, len, i + d.ret, (j + 1) + 1,
                                writes \o <<[idx |-> j, val |-> pair[1]],
                                            [idx |-> j + 1, val |-> pair[2]]>>,
                                Append(encoded, d.dst))
        ELSE
          DecodeToUTF16Loop(utf8_array, array_len, len, i + d.ret, j + 1,
                            Append(writes, [idx |-> j, val |-> U16(d.dst)]),
                            encoded)
  ELSE
    [ret |-> ~((i < array_len) /\ (j = len)), invalid |-> FALSE, i |-> i, j |-> j,
     writes |-> writes, encoded |-> encoded]

DecodeToUTF16(utf8_array, array_len, len) ==
  DecodeToUTF16Loop(utf8_array, array_len, len, 0, 0, <<>>, <<>>)

\* a store outside dst[0..len) is undefined behaviour
WritesOutOfBounds(r, len) == \E k \in 1..Len(r.writes) : r.writes[k].idx >= len

\* what a call can be observed to do: the computed result, or, once a store
\* has left the destination buffer, that result with either return value
DecodeToUTF16Outcomes(utf8_array, array_len, len) ==
  LET r == DecodeToUTF16(utf8_array, array_len, len)
  IN  IF WritesOutOfBounds(r, len)
      THEN {[r EXCEPT !.ret = b] : b \in BOOLEAN}
      ELSE {r}

(***************************************************************************)
(* CodePointIterator, unicode.cc:33.  The constructor leaves ch_ = 0,      *)
(* index_ = -1 and end_ = str->length().  Next() on the code units s with  *)
(* the fields ch and index: the return value, the fields afterwards and    *)
(* the indices handed to get_code_unit.                                    *)
(***************************************************************************)
\* Next() advancing by one code unit whatever the current code point is
CodePointIteratorNextByOne(s, ch, index) ==
  LET end_ == Len(s)
      length == 1
  IN  IF index < (end_ - length) THEN
        LET i  == index + length
            c1 == s[i + 1]
        IN  IF IsLeadSurrogate(c1) /\ (i < (end_ - 1)) THEN
              LET ch2 == s[i + 2]
              IN  IF IsTrailSurrogate(ch2)
                  THEN [ret |-> TRUE, ch_ |-> Utf16Decode(c1, ch2), index_ |-> i,
                        reads |-> {i, i + 1}]
                  ELSE [ret |-> TRUE, ch_ |-> c1, index_ |-> i, reads |-> {i, i + 1}]
            ELSE [ret |-> TRUE, ch_ |-> c1, index_ |-> i, reads |-> {i}]
      ELSE [ret |-> FALSE, ch_ |-> ch, index_ |-> end_, reads |-> {}]

CodePointIteratorNext(s, ch, index) ==
  LET end_ == Len(s)
      length == Utf16Length(ch)
  IN  IF index < (end_ - length) THEN
        LET i  == index + length
            c1 == s[i + 1]
        IN  IF IsLeadSurrogate(c1) /\ (i < (end_ - 1)) THEN
              LET ch2 == s[i + 2]
              IN  IF IsTrailSurrogate(ch2)
                  THEN [ret |-> TRUE, ch_ |-> Utf16Decode(c1, ch2), index_ |-> i,
                        reads |-> {i, i + 1}]
                  ELSE [ret |-> TRUE, ch_ |-> c1, index_ |-> i, reads |-> {i, i + 1}]
            ELSE [ret |-> TRUE, ch_ |-> c1, index_ |-> i, reads |-> {i}]
      ELSE [ret |-> FALSE, ch_ |-> ch, index_ |-> end_, reads |-> {}]

(***************************************************************************)
(* Stack: the slots of one process stack.  An Object** is an address in    *)
(* words; slot index i lives at address Pointer(i).  NULL is address 0.    *)
(***************************************************************************)
NULL == 0

\* address of slot 0, stack->Pointer(0)
StackBase == 16

\* stack->Pointer(index)
Pointer(index) == StackBase + index

\* stack->top(): index of the top slot
Top == Len(stack) - 1

\* *address, for an address inside the stack
At(address) == stack[(address - StackBase) + 1]

\* what a load through a NULL pointer does: the process dies with SIGSEGV
Segv == "SEGV"

(***************************************************************************)
(* Frame, frame.h:40.  A Frame is its fields frame_pointer_ and size_; the *)
(* stack_ field is the one stack of the model.                             *)
(***************************************************************************)
Frame(frame_pointer, size) == [frame_pointer_ |-> frame_pointer, size_ |-> size]

FirstFrame ==
  LET top_pointer == Pointer(Top)
      frame_pointer == At(top_pointer)
  IN  Frame(frame_pointer, top_pointer - frame_pointer)

IsFirstFrame(f) == f.size_ = 2

PreviousFramePointer(f) == At(f.frame_pointer_)

\* the test is on the slot the previous frame pointer points at,
\* *previous_frame_pointer: the saved frame pointer of the previous frame
IsLastFrame(f) ==
  LET previous_frame_pointer == PreviousFramePointer(f)
  IN  IF previous_frame_pointer = NULL
      THEN Segv
      ELSE At(previous_frame_pointer) = NULL

\* Previous() with the operands of the size subtraction exchanged
PreviousSizeReversed(f) ==
  LET previous_frame_pointer == PreviousFramePointer(f)
  IN  IF previous_frame_pointer = NULL
      THEN Segv
      ELSE IF At(previous_frame_pointer) = NULL
      THEN [unreachable |-> TRUE, frame |-> f]
      ELSE [unreachable |-> FALSE,
            frame |-> Frame(previous_frame_pointer,
                            previous_frame_pointer - f.frame_pointer_)]

\* unreachable: the UNREACHABLE() of line 56 was hit, on the same test of
\* *previous_frame_pointer
Previous(f) ==
  LET previous_frame_pointer == PreviousFramePointer(f)
  IN  IF previous_frame_pointer = NULL
      THEN Segv
      ELSE IF At(previous_frame_pointer) = NULL
      THEN [unreachable |-> TRUE, frame |-> f]
      ELSE [unreachable |-> FALSE,
            frame |-> Frame(previous_frame_pointer,
                            f.frame_pointer_ - previous_frame_pointer)]

ByteCodePointer(f) == At(f.frame_pointer_ + f.size_ - 1)

ReturnAddress(f) == At(f.frame_pointer_ - 1)

FirstLocalIndex(f) == (f.frame_pointer_ - Pointer(0)) + 2

(***************************************************************************)
(* Input domains.                                                          *)
(***************************************************************************)
\* longest sequence a lead byte can declare: the largest entry of kTrailBytes
MaxSeqLen == 6

\* code points within Window of each breakpoint of the encoder
Window == 2

\* most chunks in a source buffer of DecodeToUTF16
MaxChunks == 3

\* largest destination capacity tried
MaxCap == 4

\* longest TwoByteString iterated
MaxStrLen == 3

\* calls of Next() made after the one that first returned false
ExtraCalls == 2

\* most active calls
MaxDepth == 3

\* most values a frame holds above its fixed slots (locals, and the
\* arguments of the next call)
MaxLocals == 1

Breakpoints == {0, 127, 255, 2047, 55296, 56320, 57343, 65535, kMaxCodePoint}

\* values of the two middle 6-bit fields of a code point: all zeros, all ones,
\* and the values on either side of a single low bit and a single high bit
FieldSamples == {0, 1, 2, 31, 32, 33, 62, 63}

CodePoints ==
  {c \in UNION {(b - Window)..(b + Window + 1) : b \in Breakpoints} :
     c >= 0 /\ c <= kMaxCodePoint}
  \cup
  {c \in {a * 262144 + b * 4096 + m * 64 + d :
            a \in 0..4, b \in FieldSamples, m \in FieldSamples, d \in 0..63} :
     c <= kMaxCodePoint}

\* lead bytes: both ends of every row of kTrailBytes and every byte at which
\* the range or shortest-form checks change their answer
LeadBytes == {0, 65, 127, 128, 191, 192, 193, 194, 195, 196, 223, 224, 225,
              226, 236, 237, 238, 239, 240, 241, 243, 244, 245, 247, 248,
              251, 252, 253, 254, 255}

\* second bytes: the ends of the sub-ranges 80..8F, 90..9F, A0..BF and two
\* bytes that are not trail bytes
SecondBytes == {128, 143, 144, 159, 160, 191, 65, 192}

\* later bytes: the least and greatest trail byte and one that is none
LaterBytes == {128, 191, 65}

RECURSIVE BuffersOfLen(_)
BuffersOfLen(n) ==
  IF n = 1 THEN {<<l>> : l \in LeadBytes}
  ELSE IF n = 2 THEN {<<l, t>> : l \in LeadBytes, t \in SecondBytes}
  ELSE {Append(b, t) : b \in BuffersOfLen(n - 1), t \in LaterBytes}

Buffers == UNION {BuffersOfLen(n) : n \in 1..MaxSeqLen}

\* pieces of a source buffer: well-formed sequences of every length and
\* Type, the two ends of the surrogate range, and malformed pieces
Chunks == {<<65>>,                      \* U+0041
           <<195, 191>>,                \* U+00FF, the last Latin-1 code point
           <<196, 128>>,                \* U+0100
           <<226, 130, 172>>,           \* U+20AC
           <<237, 160, 128>>,           \* U+D800
           <<237, 191, 191>>,           \* U+DFFF
           <<240, 159, 152, 128>>,      \* U+1F600
           <<128>>,                     \* a trail byte without a lead
           <<192, 128>>,                \* U+0000 in two bytes
           <<226, 130>>}                \* three-byte sequence cut short

RECURSIVE SourcesUpTo(_)
SourcesUpTo(n) ==
  IF n = 0 THEN {<<>>}
  ELSE SourcesUpTo(n - 1) \cup {s \o c : s \in SourcesUpTo(n - 1), c \in Chunks}

Sources == SourcesUpTo(MaxChunks)

\* code units: the ends of the lead and trail surrogate ranges, their
\* neighbours, and the pair D83D DE00
CodeUnits == {65, 55295, 55296, 55357, 56319, 56320, 56832, 57343, 57344, 65535}

RECURSIVE StringsUpTo(_)
StringsUpTo(n) ==
  IF n = 0 THEN {<<>>}
  ELSE StringsUpTo(n - 1) \cup {Append(t, u) : t \in StringsUpTo(n - 1), u \in CodeUnits}

\* results before the operation has run
NoEnc == [ret |-> 0, bytes |-> <<>>]
NoDec == [ret |-> 0, dst |-> 0, reads |-> {}]
NoCnt == [len |-> 0, type |-> kLatin1]
NoU16 == [ret |-> FALSE, invalid |-> FALSE, i |-> 0, j |-> 0,
          writes |-> <<>>, encoded |-> <<>>]

IterIdle ==
  /\ str = <<>> /\ ch_ = 0 /\ index_ = -1 /\ hist = <<>>

\* the Frame variable while no walk is under way
NoFrame == Frame(NULL, 0)

FrameIdle ==
  /\ stack = <<>> /\ fp = NULL /\ depth = 0
  /\ frame = NoFrame /\ steps = 0 /\ visited = <<>>

(***************************************************************************)
(* Reference definitions the claims are stated against: UTF-8 as the bit   *)
(* layout of the encoding forms, without the decoder's tables.             *)
(***************************************************************************)
\* bytes a lead byte announces: 0xxxxxxx, 110xxxxx, 1110xxxx, 11110xxx;
\* 0 for a byte that cannot start a sequence of one to four bytes
RefSeqLen(lead) ==
  IF lead < 128 THEN 1
  ELSE IF lead < 192 THEN 0
  ELSE IF lead < 224 THEN 2
  ELSE IF lead < 240 THEN 3
  ELSE IF lead < 248 THEN 4
  ELSE 0

\* the payload bits of the first n bytes of b, concatenated
RefCodePoint(b, n) ==
  IF n = 1 THEN b[1]
  ELSE IF n = 2 THEN (b[1] % 32) * 64 + (b[2] % 64)
  ELSE IF n = 3 THEN (b[1] % 16) * 4096 + (b[2] % 64) * 64 + (b[3] % 64)
  ELSE (b[1] % 8) * 262144 + (b[2] % 64) * 4096 + (b[3] % 64) * 64 + (b[4] % 64)

\* least code point that needs n bytes
RefMinimum(n) == IF n = 1 THEN 0 ELSE IF n = 2 THEN 128 ELSE IF n = 3 THEN 2048 ELSE 65536

\* the first n bytes of b, n = RefSeqLen(b[1]), lie within the first len
\* bytes and form a sequence that is neither malformed, nor out of range,
\* nor longer than its code point needs
RefAccepts(b, len) ==
  LET n == RefSeqLen(b[1])
  IN  /\ n >= 1
      /\ n <= len
      /\ \A k \in 2..n : b[k] \in 128..191
      /\ RefCodePoint(b, n) <= kMaxCodePoint
      /\ RefCodePoint(b, n) >= RefMinimum(n)

IsSurrogateCodePoint(c) == c \in 55296..57343

\* b starts with ED A0..BF 80..BF
IsSurrogateSequence(b) ==
  /\ Len(b) >= 3
  /\ b[1] = 237 /\ b[2] \in 160..191 /\ b[3] \in 128..191

\* b is a concatenation of sequences RefAccepts
RECURSIVE RefWellFormed(_)
RefWellFormed(b) ==
  IF b = <<>> THEN TRUE
  ELSE /\ RefAccepts(b, Len(b))
       /\ RefWellFormed(SubSeq(b, RefSeqLen(b[1]) + 1, Len(b)))

\* the lead bytes of the sequences of a well-formed b
RECURSIVE RefLeads(_)
RefLeads(b) ==
  IF b = <<>> THEN {}
  ELSE {b[1]} \cup RefLeads(SubSeq(b, RefSeqLen(b[1]) + 1, Len(b)))

\* UTF-16 form of a code point: itself, or the pair D800 + (c - 10000h) / 400h,
\* DC00 + (c - 10000h) mod 400h
RefUnits(c) ==
  IF c < 65536 THEN <<c>>
  ELSE <<55296 + ((c - 65536) \div 1024), 56320 + ((c - 65536) % 1024)>>

\* UTF-16 form of a well-formed b
RECURSIVE RefUTF16(_)
RefUTF16(b) ==
  IF b = <<>> THEN <<>>
  ELSE RefUnits(RefCodePoint(b, RefSeqLen(b[1])))
         \o RefUTF16(SubSeq(b, RefSeqLen(b[1]) + 1, Len(b)))

\* widest Type among lead bytes: up to C3 Latin-1, up to EF BMP, else supplementary
RefWidest(leads) ==
  IF \E l \in leads : l >= 240 THEN kSupplementary
  ELSE IF \E l \in leads : l > 195 THEN kBMP
  ELSE kLatin1

(***************************************************************************)
(* Single-sequence decoding: a caller hands Utf8::Decode a pointer to at   *)
(* least one allocated byte and any supplied length from zero up to the    *)
(* allocation.  Line 149 loads utf8_array[0] before any test of array_len. *)
(***************************************************************************)
InitDecode ==
  /\ pc = "ready"
  /\ cp = 0
  /\ buf \in Buffers
  /\ alen \in 0..Len(buf)
  /\ cap = 0
  /\ enc = NoEnc /\ dec = NoDec /\ cnt = NoCnt /\ u16 = NoU16
  /\ IterIdle /\ FrameIdle

Decode ==
  /\ pc = "ready"
  /\ dec' = Utf8Decode(buf, alen)
  /\ pc' = "decoded"
  /\ UNCHANGED <<cp, buf, alen, cap, enc, cnt, u16>>
  /\ UNCHANGED iterVars /\ UNCHANGED frameVars

NextDecode == Decode

Spec == InitDecode /\ [][NextDecode]_vars

(***************************************************************************)
(* Round trip: a code point is encoded and the bytes written are decoded.  *)
(***************************************************************************)
InitRoundTrip ==
  /\ pc = "input"
  /\ cp \in CodePoints
  /\ buf = <<>> /\ alen = 0 /\ cap = 0
  /\ enc = NoEnc /\ dec = NoDec /\ cnt = NoCnt /\ u16 = NoU16
  /\ IterIdle /\ FrameIdle

Encode ==
  /\ pc = "input"
  /\ enc' = Utf8Encode(cp)
  /\ buf' = enc'.bytes
  /\ alen' = enc'.ret
  /\ pc' = "ready"
  /\ UNCHANGED <<cp, cap, dec, cnt, u16>>
  /\ UNCHANGED iterVars /\ UNCHANGED frameVars

NextRoundTrip == Encode \/ Decode

SpecRoundTrip == InitRoundTrip /\ [][NextRoundTrip]_vars

(***************************************************************************)
(* Claims about Utf8::Encode and Utf8::Decode.                             *)
(***************************************************************************)

\* C1: for every code point outside the surrogate range, decoding the bytes
\* Utf8::Encode wrote, with the supplied length equal to the number of bytes
\* written, stores the code point and returns Utf8::Length of it, which is
\* also what Utf8::Encode returned.
C1_RoundTrip ==
  (pc = "decoded" /\ ~IsSurrogateCodePoint(cp)) =>
    /\ alen = enc.ret
    /\ Len(enc.bytes) = enc.ret
    /\ enc.ret = Utf8Length(cp)
    /\ dec.dst = cp
    /\ dec.ret = Utf8Length(cp)

C1_Witness ==
  /\ pc = "decoded" /\ cp = kMaxCodePoint
  /\ enc = [ret |-> 4, bytes |-> <<244, 143, 191, 191>>]
  /\ dec.dst = kMaxCodePoint /\ dec.ret = 4

\* C2: on a non-empty buffer Utf8::Decode returns 0 and stores -1 when the
\* lead byte is no valid lead, a trailing byte is not 10xxxxxx, the code
\* point exceeds U+10FFFF or the form is not the shortest (five- and six-byte
\* forms included, whatever the accumulator wraps to); in every successful
\* case it returns the sequence length, between 1 and 4, and stores the
\* decoded code point.
C2_DecodeValidates ==
  (pc = "decoded" /\ alen >= 1) =>
    IF RefAccepts(buf, alen)
    THEN /\ dec.ret = RefSeqLen(buf[1])
         /\ dec.ret \in 1..4
         /\ dec.dst = RefCodePoint(buf, RefSeqLen(buf[1]))
    ELSE /\ dec.ret = 0
         /\ dec.dst = -1

\* a six-byte form with well-formed trailing bytes, whose accumulator wraps
C2_Witness ==
  /\ pc = "decoded"
  /\ buf = <<252, 128, 128, 128, 128, 128>> /\ alen = 6
  /\ dec.ret = 0 /\ dec.dst = -1

\* C3: for every buffer and every supplied length, zero included, when the
\* lead byte declares more bytes than the supplied length provides,
\* Utf8::Decode returns 0, stores -1 and reads no byte at an index at or
\* beyond the supplied length.
C3_TruncationSafe ==
  (pc = "decoded" /\ kTrailBytes[buf[1] + 1] > alen) =>
    /\ dec.ret = 0
    /\ dec.dst = -1
    /\ \A r \in dec.reads : r >= 0 /\ r < alen

(***************************************************************************)
(* Whole-buffer conversion: a caller holds a source buffer and a           *)
(* destination of capacity cap; it may decode the first sequence, or count *)
(* the code units and then convert, into the destination it has or into    *)
(* one sized by the count.                                                 *)
(***************************************************************************)
InitUtf16 ==
  /\ pc = "ready"
  /\ cp = 0
  /\ buf \in Sources
  /\ alen = Len(buf)
  /\ cap \in 0..MaxCap
  /\ enc = NoEnc /\ dec = NoDec /\ cnt = NoCnt /\ u16 = NoU16
  /\ IterIdle /\ FrameIdle

CountCodeUnits ==
  /\ pc = "ready"
  /\ cnt' = CodeUnitCount(buf, alen)
  /\ pc' = "counted"
  /\ UNCHANGED <<cp, buf, alen, cap, enc, dec, u16>>
  /\ UNCHANGED iterVars /\ UNCHANGED frameVars

Convert ==
  /\ pc = "counted"
  /\ u16' \in DecodeToUTF16Outcomes(buf, alen, cap)
  /\ pc' = "done"
  /\ UNCHANGED <<cp, buf, alen, cap, enc, dec, cnt>>
  /\ UNCHANGED iterVars /\ UNCHANGED frameVars

ConvertPresized ==
  /\ pc = "counted"
  /\ cap' = cnt.len
  /\ u16' \in DecodeToUTF16Outcomes(buf, alen, cnt.len)
  /\ pc' = "done"
  /\ UNCHANGED <<cp, buf, alen, enc, dec, cnt>>
  /\ UNCHANGED iterVars /\ UNCHANGED frameVars

\* the first call of Utf8::Decode the conversion loop makes: with i = 0 and
\* j = 0, line 184 enters the loop body, and so reaches the call at line 187,
\* only while (i < array_len) && (j < len)
DecodeFirst ==
  /\ 0 < alen
  /\ 0 < cap
  /\ Decode

NextUtf16 == DecodeFirst \/ CountCodeUnits \/ Convert \/ ConvertPresized

SpecUtf16 == InitUtf16 /\ [][NextUtf16]_vars

(***************************************************************************)
(* Claims about Utf8::CodeUnitCount and Utf8::DecodeToUTF16.               *)
(***************************************************************************)

\* C4: Utf8::DecodeToUTF16 returns true only when every source byte has been
\* consumed as part of a valid sequence and every resulting code unit fits in
\* dst[0..len); it returns false if a source sequence is invalid or the
\* destination is exhausted before the source is consumed.
C4_TrueOnlyWhenAllFits ==
  (pc = "done" /\ u16.ret = TRUE) =>
    /\ RefWellFormed(buf)
    /\ Len(RefUTF16(buf)) <= cap

\* C5: on a concatenation of valid sequences the length Utf8::CodeUnitCount
\* returns is the number of code units Utf8::DecodeToUTF16 writes, so the
\* conversion into a destination of exactly that capacity returns true, and
\* the reported Type is the widest among the lead bytes, whatever their order.
C5_CountPresizes ==
  /\ (pc \in {"counted", "done"} /\ RefWellFormed(buf)) =>
       /\ cnt.len = Len(RefUTF16(buf))
       /\ cnt.type = RefWidest(RefLeads(buf))
  /\ (pc = "done" /\ RefWellFormed(buf) /\ cap = cnt.len) =>
       /\ u16.ret = TRUE
       /\ u16.i = alen
       /\ Len(u16.writes) = cnt.len
       /\ \A k \in 1..Len(u16.writes) :
            u16.writes[k] = [idx |-> k - 1, val |-> RefUTF16(buf)[k]]

\* a supplementary sequence before a BMP one, converted into three slots
C5_Witness ==
  /\ pc = "done"
  /\ buf = <<240, 159, 152, 128, 196, 128>> /\ cap = 3
  /\ cnt = [len |-> 3, type |-> kSupplementary]
  /\ u16.ret = TRUE
  /\ u16.writes = <<[idx |-> 0, val |-> 55357], [idx |-> 1, val |-> 56832],
                    [idx |-> 2, val |-> 256]>>

\* C9: the decoder rejects surrogates: on ED A0..BF 80..BF Utf8::Decode
\* returns 0 and stores -1, and Utf8::DecodeToUTF16 returns false instead of
\* storing the surrogate as a code unit.
C9_SurrogatesRejected ==
  /\ (pc = "decoded" /\ IsSurrogateSequence(buf)) =>
       /\ dec.ret = 0
       /\ dec.dst = -1
  /\ (pc = "done" /\ IsSurrogateSequence(buf) /\ cap >= 1) =>
       /\ u16.ret = FALSE
       /\ u16.writes = <<>>

\* C9 as the code has it: on ED A0..BF 80..BF Utf8::Decode returns 3 and
\* stores the surrogate code point, and Utf8::DecodeToUTF16, given at least
\* one destination slot, stores it as the code unit dst[0] and, when the
\* source is that sequence alone, returns true.
C9_SurrogatesAccepted ==
  /\ (pc = "decoded" /\ IsSurrogateSequence(buf)) =>
       /\ dec.ret = 3
       /\ IsSurrogateCodePoint(dec.dst)
       /\ dec.dst = RefCodePoint(buf, 3)
  /\ (pc = "done" /\ IsSurrogateSequence(buf) /\ cap >= 1) =>
       /\ Len(u16.writes) >= 1
       /\ u16.writes[1] = [idx |-> 0, val |-> RefCodePoint(buf, 3)]
       /\ (Len(buf) = 3 => u16.ret = TRUE)

C9_Witness ==
  /\ pc = "done"
  /\ buf = <<237, 160, 128>> /\ cap = 1
  /\ u16.ret = TRUE
  /\ u16.writes = <<[idx |-> 0, val |-> 55296]>>

\* C10: every store Utf8::DecodeToUTF16 makes, itself or through
\* Utf16::Encode, goes to an index in [0, len), and Utf16::Encode is only
\* reached with a code point above 0xFFFF.
C10_WritesInBounds ==
  pc = "done" =>
    /\ \A k \in 1..Len(u16.writes) :
         u16.writes[k].idx >= 0 /\ u16.writes[k].idx < cap
    /\ \A k \in 1..Len(u16.encoded) : u16.encoded[k] > kMaxCodeUnit

(***************************************************************************)
(* Iteration: a fresh CodePointIterator over a string, Next() called       *)
(* repeatedly, Current() read after each call.                             *)
(***************************************************************************)
InitIter ==
  /\ pc = "iterating"
  /\ str \in StringsUpTo(MaxStrLen)
  /\ ch_ = 0
  /\ index_ = -1
  /\ hist = <<>>
  /\ cp = 0 /\ buf = <<>> /\ alen = 0 /\ cap = 0
  /\ enc = NoEnc /\ dec = NoDec /\ cnt = NoCnt /\ u16 = NoU16
  /\ FrameIdle

\* number of calls that returned false so far
FalseReturns == Cardinality({k \in 1..Len(hist) : ~hist[k].ret})

CallNext ==
  /\ pc = "iterating"
  /\ FalseReturns <= ExtraCalls
  /\ LET r == CodePointIteratorNext(str, ch_, index_)
     IN  /\ ch_' = r.ch_
         /\ index_' = r.index_
         /\ hist' = Append(hist, [ret |-> r.ret, current |-> r.ch_,
                                  index |-> r.index_, reads |-> r.reads])
  /\ UNCHANGED <<pc, str>>
  /\ UNCHANGED codecVars /\ UNCHANGED frameVars

NextIter == CallNext

SpecIter == InitIter /\ [][NextIter]_vars

\* the code points of s: left to right, a lead surrogate immediately followed
\* by a trail surrogate is one supplementary code point, any other unit itself
RECURSIVE RefCodePoints(_)
RefCodePoints(s) ==
  IF s = <<>> THEN <<>>
  ELSE IF Len(s) >= 2 /\ s[1] \in 55296..56319 /\ s[2] \in 56320..57343
       THEN <<65536 + (s[1] - 55296) * 1024 + (s[2] - 56320)>>
              \o RefCodePoints(SubSeq(s, 3, Len(s)))
       ELSE <<s[1]>> \o RefCodePoints(Tail(s))

\* code units taken by the first n code points of the sequence c
RECURSIVE RefUnitsBefore(_, _)
RefUnitsBefore(c, n) ==
  IF n = 0 THEN 0
  ELSE RefUnitsBefore(c, n - 1) + (IF c[n] >= 65536 THEN 2 ELSE 1)

\* C6: repeated Next() on a fresh iterator yields through Current() exactly
\* the reference sequence; each code unit is covered once, the index never
\* decreases, no unit outside [0, length) is read, and after Next() has
\* returned false every later call returns false.
C6_IteratorYieldsCodePoints ==
  pc = "iterating" =>
    LET ref == RefCodePoints(str)
    IN  \A k \in 1..Len(hist) :
          /\ hist[k].ret = (k <= Len(ref))
          /\ hist[k].ret => /\ hist[k].current = ref[k]
                            /\ hist[k].index = RefUnitsBefore(ref, k - 1)
          /\ ~hist[k].ret => hist[k].index = Len(str)
          /\ hist[k].index >= (IF k = 1 THEN -1 ELSE hist[k - 1].index)
          /\ \A r \in hist[k].reads : r >= 0 /\ r < Len(str)
          /\ \A j \in 1..(k - 1) : ~hist[j].ret => ~hist[k].ret

\* an unpaired lead, then a pair, then two calls past the end
C6_Witness ==
  /\ pc = "iterating"
  /\ str = <<55357, 55357, 56832>>
  /\ Len(hist) = 4
  /\ hist[1] = [ret |-> TRUE, current |-> 55357, index |-> 0, reads |-> {0, 1}]
  /\ hist[2] = [ret |-> TRUE, current |-> 128512, index |-> 1, reads |-> {1, 2}]
  /\ ~hist[3].ret /\ ~hist[4].ret
  /\ index_ = 3

(***************************************************************************)
(* The interpreter's use of the stack (the call protocol) and a stack      *)
(* scan.  The stack grows towards higher indices.  A frame is, upwards:    *)
(* the return bytecode pointer at fp - 1, the saved frame pointer at fp,   *)
(* an empty slot at fp + 1, then the values it pushes.  Before a scan the  *)
(* interpreter pushes the base frame: its bytecode pointer, its frame      *)
(* pointer, an empty slot, and on top the address of the slot holding the  *)
(* frame pointer.                                                          *)
(***************************************************************************)
\* words an argument or local can hold; 0 has the bit pattern of NULL
Values == {0, 7}

\* bytecode address the call made at depth d returns to
Bcp(d) == 4096 + d

\* values the running frame holds above its fixed slots
LocalsOnTop == IF fp = NULL THEN Len(stack) ELSE Pointer(Top) - (fp + 1)

InitFrame ==
  /\ pc = "running"
  /\ stack = <<>>
  /\ fp = NULL
  /\ depth = 0
  /\ frame = NoFrame /\ steps = 0 /\ visited = <<>>
  /\ cp = 0 /\ buf = <<>> /\ alen = 0 /\ cap = 0
  /\ enc = NoEnc /\ dec = NoDec /\ cnt = NoCnt /\ u16 = NoU16
  /\ IterIdle

\* push an argument or a local
Push ==
  /\ pc = "running"
  /\ LocalsOnTop < MaxLocals
  /\ \E v \in Values : stack' = Append(stack, v)
  /\ UNCHANGED <<pc, fp, depth, frame, steps, visited>>
  /\ UNCHANGED codecVars /\ UNCHANGED iterVars

\* drop the top value of the running frame
Pop ==
  /\ pc = "running"
  /\ LocalsOnTop > 0
  /\ stack' = SubSeq(stack, 1, Len(stack) - 1)
  /\ UNCHANGED <<pc, fp, depth, frame, steps, visited>>
  /\ UNCHANGED codecVars /\ UNCHANGED iterVars

\* call: the arguments are on the stack; push the return bytecode pointer and
\* the frame pointer, point the frame pointer at the slot just pushed
Call ==
  /\ pc = "running"
  /\ depth < MaxDepth
  /\ stack' = stack \o <<Bcp(depth), fp, 0>>
  /\ fp' = Pointer(Len(stack) + 1)
  /\ depth' = depth + 1
  /\ UNCHANGED <<pc, frame, steps, visited>>
  /\ UNCHANGED codecVars /\ UNCHANGED iterVars

\* return: restore the frame pointer saved at fp, discard the frame's slots
\* down to and including the return bytecode pointer
Return ==
  /\ pc = "running"
  /\ depth > 0
  /\ fp' = At(fp)
  /\ stack' = SubSeq(stack, 1, (fp - StackBase) - 1)
  /\ depth' = depth - 1
  /\ UNCHANGED <<pc, frame, steps, visited>>
  /\ UNCHANGED codecVars /\ UNCHANGED iterVars

\* the process is paused for a scan: push the base frame
Suspend ==
  /\ pc = "running"
  /\ stack' = stack \o <<Bcp(depth), fp, 0, Pointer(Len(stack) + 1)>>
  /\ pc' = "suspended"
  /\ UNCHANGED <<fp, depth, frame, steps, visited>>
  /\ UNCHANGED codecVars /\ UNCHANGED iterVars

\* the scan starts at Frame::FirstFrame(stack)
WalkFirst ==
  /\ pc = "suspended"
  /\ frame' = FirstFrame
  /\ steps' = 0
  /\ visited' = <<FirstFrame>>
  /\ pc' = "walking"
  /\ UNCHANGED <<stack, fp, depth>>
  /\ UNCHANGED codecVars /\ UNCHANGED iterVars

\* the scan evaluates IsLastFrame() on a frame whose previous frame pointer
\* is NULL: the load of line 51 faults
WalkFault ==
  /\ pc = "walking"
  /\ PreviousFramePointer(frame) = NULL
  /\ pc' = "fault"
  /\ UNCHANGED frameVars
  /\ UNCHANGED codecVars /\ UNCHANGED iterVars

\* the scan applies Previous() while IsLastFrame() is false
WalkPrevious ==
  /\ pc = "walking"
  /\ PreviousFramePointer(frame) # NULL
  /\ ~IsLastFrame(frame)
  /\ LET r == Previous(frame)
     IN  /\ pc' = IF r.unreachable THEN "aborted" ELSE "walking"
         /\ frame' = r.frame
         /\ visited' = IF r.unreachable THEN visited ELSE Append(visited, r.frame)
  /\ steps' = steps + 1
  /\ UNCHANGED <<stack, fp, depth>>
  /\ UNCHANGED codecVars /\ UNCHANGED iterVars

\* the scan stops at the frame for which IsLastFrame() is true
WalkStop ==
  /\ pc = "walking"
  /\ PreviousFramePointer(frame) # NULL
  /\ IsLastFrame(frame)
  /\ pc' = "walked"
  /\ UNCHANGED frameVars
  /\ UNCHANGED codecVars /\ UNCHANGED iterVars

\* the process resumes: the base frame is dropped
Resume ==
  /\ pc = "walked"
  /\ stack' = SubSeq(stack, 1, Len(stack) - 4)
  /\ frame' = NoFrame /\ steps' = 0 /\ visited' = <<>>
  /\ pc' = "running"
  /\ UNCHANGED <<fp, depth>>
  /\ UNCHANGED codecVars /\ UNCHANGED iterVars

NextFrame ==
  Push \/ Pop \/ Call \/ Return \/ Suspend \/ WalkFirst \/ WalkFault
    \/ WalkPrevious \/ WalkStop \/ Resume

SpecFrame == InitFrame /\ [][NextFrame]_vars

\* C7: on a stack left with N active calls by calls and returns that follow
\* the protocol, the walk from Frame::FirstFrame that applies Previous()
\* while IsLastFrame() is false makes exactly N Previous() steps before it
\* reaches a frame for which IsLastFrame() is true; the chain of previous
\* frame pointers has no cycle and Previous() never meets a null slot.
C7_WalkTakesDepthSteps ==
  /\ pc # "aborted"
  /\ pc \in {"walking", "walked"} =>
       /\ steps <= depth
       /\ Len(visited) = steps + 1
       /\ visited[1] = FirstFrame /\ IsFirstFrame(visited[1])
       /\ \A k \in 1..(Len(visited) - 1) :
            /\ visited[k + 1].frame_pointer_ = PreviousFramePointer(visited[k])
            /\ visited[k + 1].frame_pointer_ < visited[k].frame_pointer_
  /\ pc = "walked" => steps = depth

\* C8: when frame A is the frame B.Previous() returns, B.FirstLocalIndex() is
\* strictly greater than A.FirstLocalIndex(): FirstLocalIndex() decreases at
\* every Previous() step of a walk, and every frame Previous() produces has a
\* positive size.
C8_LocalsOrdered ==
  pc \in {"walking", "walked"} =>
    \A k \in 1..(Len(visited) - 1) :
      /\ visited[k + 1] = Previous(visited[k]).frame
      /\ FirstLocalIndex(visited[k]) > FirstLocalIndex(visited[k + 1])
      /\ visited[k + 1].size_ > 0

\* three calls deep: the base frame, the frame of the innermost call, the
\* frame of the call below it, at which the walk has stopped
C8_Witness ==
  /\ pc = "walked"
  /\ depth = 3
  /\ Len(visited) = 3
  /\ FirstLocalIndex(visited[1]) > FirstLocalIndex(visited[2])
  /\ FirstLocalIndex(visited[2]) > FirstLocalIndex(visited[3])
  /\ FirstLocalIndex(visited[3]) = 6

====
